---- MODULE Spec2Model ----
(***************************************************************************)
(* Model of the auditlog package of workos-go:                             *)
(*   - the event preparation pipeline run by Publish (timestamp and        *)
(*     idempotency key defaulting, merge of GlobalMetadata into the        *)
(*     event's metadata, validation, transmission);                        *)
(*   - ListRequestParams.GetLimit.                                         *)
(*                                                                         *)
(* Go maps are reference values: Metadata values are modelled as           *)
(* references (or nil) into a heap of map objects, so that in-place writes *)
(* and aliasing between the event's map and GlobalMetadata are visible.    *)
(* A string is the sequence of its code points; len() of a Go string is    *)
(* the length of its UTF-8 encoding in bytes.                              *)
(***************************************************************************)
EXTENDS Integers, Sequences, FiniteSets, TLC

VARIABLES
    GlobalMetadata,  \* package variable: nil or a reference to a map object
    heap,            \* map objects: reference -> (key -> value)
    clock,           \* the wall clock read by time.Now()
    pc,              \* position of the running Publish call
    arg,             \* the Event the caller passed (by value)
    heap0,           \* the heap when the call was made
    clock0,          \* the clock when the call was made
    e,               \* Publish's local copy of the Event
    err,             \* result of e.Metadata.validate()
    result,          \* what Publish returned
    sent,            \* the requests handed to the transport by this call
    limitCalls       \* the GetLimit call made last: {<<Limit, returned value>>}

vars == <<GlobalMetadata, heap, clock, pc, arg, heap0, clock0, e, err, result,
          sent, limitCalls>>

publishVars == <<GlobalMetadata, heap, clock, pc, arg, heap0, clock0, e, err,
                 result, sent>>

limitVars == <<limitCalls>>

-----------------------------------------------------------------------------
(* Bounds of the model *)

MaxClock == 2        \* the clock runs over 1..MaxClock
OverLimit == 1       \* maps hold up to MaxMetadataKeys + OverLimit filler keys
LimitSlack == 3      \* limits range over -LimitSlack .. MaxLimit + LimitSlack

(* Program constants *)

MaxMetadataKeys == 50
MaxKeyLength == 40
DefaultLimit == 10
MaxLimit == 1000

-----------------------------------------------------------------------------
(* Values *)

NIL == "nil"

Rep(c, n) == [i \in 1..n |-> c]

\* Bytes of the UTF-8 encoding of one code point.
Utf8Len(cp) ==
    IF cp < 128 THEN 1
    ELSE IF cp < 2048 THEN 2
    ELSE IF cp < 65536 THEN 3
    ELSE 4

RECURSIVE len(_)
\* Go's len(k) for a string k: its length in bytes.
len(k) == IF k = <<>> THEN 0 ELSE Utf8Len(Head(k)) + len(Tail(k))

\* Number of characters (code points) of a string.
Chars(k) == Len(k)

\* Short ASCII keys "k!", "k#", ... all distinct.
Filler(i) == <<107, 32 + i>>

Fillers(lo, n) == {Filler(i) : i \in lo..(lo + n - 1)}

\* Keys around the length limit: 'a' is one byte, U+00E9 two bytes.
AsciiAtLimit == Rep(97, MaxKeyLength)
AsciiOverLimit == Rep(97, MaxKeyLength + 1)
WideHalfOver == Rep(233, (MaxKeyLength \div 2) + 1)

SpecialKeys == {AsciiAtLimit, AsciiOverLimit, WideHalfOver}

MapOf(keys, v) == [k \in keys |-> v]

Sizes == {0, 1} \cup ((MaxMetadataKeys - 1)..(MaxMetadataKeys + OverLimit))

\* Maps a caller can build for an event: values are all 1.
EventMaps ==
    {MapOf(Fillers(1, n), 1) : n \in Sizes}
    \cup {MapOf(Fillers(1, n) \cup {k}, 1) :
             n \in {0, MaxMetadataKeys - 1}, k \in SpecialKeys}

\* Maps the program can install as GlobalMetadata: values are all 2.
GlobalMaps ==
    {MapOf(Fillers(lo, n), 2) : lo \in {1, MaxMetadataKeys}, n \in 0..2}
    \cup {MapOf(Fillers(1, n), 2) :
             n \in (MaxMetadataKeys + 1)..(MaxMetadataKeys + OverLimit)}
    \cup {MapOf(Fillers(1, n) \cup {k}, 2) : n \in 0..1, k \in SpecialKeys}

Refs == {"ev", "gl"}

EmptyMap == MapOf({}, 0)

\* The content of a Metadata value: a nil map reads as an empty map.
Content(h, m) == IF m = NIL THEN EmptyMap ELSE h[m]

Keys(h, m) == DOMAIN Content(h, m)

(* time.Time: the instant, whether a monotonic reading is attached, and the
   location pointer (nil means UTC). *)
UTCLoc == NIL
LocalLoc == "Local"

ZeroTime == [sec |-> 0, hasMono |-> FALSE, loc |-> UTCLoc]

Now(c) == [sec |-> c, hasMono |-> TRUE, loc |-> LocalLoc]

UTC(t) == [t EXCEPT !.hasMono = FALSE, !.loc = UTCLoc]

\* Timestamps a caller can pass: the zero value, the same instant in another
\* location, and later instants.
TimeInputs ==
    {ZeroTime, [ZeroTime EXCEPT !.loc = LocalLoc],
     [sec |-> 1, hasMono |-> FALSE, loc |-> UTCLoc],
     [sec |-> 1, hasMono |-> TRUE, loc |-> LocalLoc]}

UUIDs == {"6ba7b810-9dad-41d1-80b4-00c04fd430c8",
          "123e4567-e89b-42d3-a456-426614174000"}

KeyInputs == {"", "abc"}

NoEvent == [OccurredAt |-> ZeroTime, IdempotencyKey |-> "", Metadata |-> NIL]

-----------------------------------------------------------------------------
(* The functions of auditlog.go *)

\* error values: kind, and for the key-length error the key and the length
\* formatted into its message
nilError == [kind |-> "nil", key |-> <<>>, len |-> 0]

errTooMuchMetadataKeys == [kind |-> "tooMuchMetadataKeys", key |-> <<>>, len |-> 0]

errKeyTooLong(k, l) == [kind |-> "keyTooLong", key |-> k, len |-> l]

errTransport == [kind |-> "transport", key |-> <<>>, len |-> 0]

\* The writes of merge's loop: dst[k] = src[k] for the keys ks of src. A
\* write into a nil map panics.
Fill(h, dst, src, ks) ==
    IF ks = {} THEN [panicked |-> FALSE, heap |-> h]
    ELSE IF dst = NIL THEN [panicked |-> TRUE, heap |-> h]
    ELSE [panicked |-> FALSE,
          heap |-> [h EXCEPT ![dst] =
                      [k \in DOMAIN h[dst] \cup ks |->
                          IF k \in ks THEN h[src][k] ELSE h[dst][k]]]]

\* merge without the `if _, ok := m[k]; !ok` test: other's values win.
mergeOverride(h, m, other) == Fill(h, m, other, Keys(h, other))

\* merge with receiver and argument swapped: it fills other from m.
mergeSwapped(h, m, other) ==
    Fill(h, other, m, {k \in Keys(h, m) : k \notin Keys(h, other)})

\* m.merge(other) on heap h: the heap after the call, or a panic.
merge(h, m, other) ==
    Fill(h, m, other, {k \in Keys(h, other) : k \notin Keys(h, m)})

\* m.validate(): the set of values it can return (map iteration order is
\* unspecified, so any over-long key can be the one reported).
\* validate without the key count test.
validateNoCount(mp) ==
    LET long == {k \in DOMAIN mp : len(k) > MaxKeyLength}
    IN  IF long = {} THEN {nilError}
        ELSE {errKeyTooLong(k, len(k)) : k \in long}

validate(mp) ==
    IF Cardinality(DOMAIN mp) > MaxMetadataKeys THEN {errTooMuchMetadataKeys}
    ELSE LET long == {k \in DOMAIN mp : len(k) > MaxKeyLength}
         IN  IF long = {} THEN {nilError}
             ELSE {errKeyTooLong(k, len(k)) : k \in long}

\* defaultTime without the .UTC() conversion.
defaultTimeLocal(t, now) == IF t = ZeroTime THEN now ELSE t

\* defaultTime that always takes the current time.
defaultTimeAlways(t, now) == UTC(now)

defaultTime(t, now) == IF t = ZeroTime THEN UTC(now) ELSE t

\* defaultIdempotencyKey that never generates a key.
defaultIdempotencyKeyKeep(key, uuid) == key

defaultIdempotencyKey(key, uuid) == IF key = "" THEN uuid ELSE key

-----------------------------------------------------------------------------
(* Publish *)

Init ==
    /\ \E g \in GlobalMaps, n \in BOOLEAN :
          /\ GlobalMetadata = IF n /\ g = EmptyMap THEN NIL ELSE "gl"
          /\ heap = [r \in Refs |-> IF r = "gl" THEN g ELSE EmptyMap]
    /\ clock = 1
    /\ pc = "idle"
    /\ arg = NoEvent
    /\ heap0 = heap
    /\ clock0 = clock
    /\ e = NoEvent
    /\ err = nilError
    /\ result = nilError
    /\ sent = {}
    /\ limitCalls = {}

Tick ==
    /\ clock < MaxClock
    /\ clock' = clock + 1
    /\ UNCHANGED <<GlobalMetadata, heap, pc, arg, heap0, clock0, e, err, result,
                   sent, limitCalls>>

\* Publish(ctx, e): the caller builds an Event and passes it by value.
PublishCall ==
    /\ pc = "idle"
    /\ \E t \in TimeInputs, k \in KeyInputs, m \in {NIL, "ev", "gl"},
          c \in EventMaps :
          /\ m = "gl" => GlobalMetadata = "gl" /\ c = EmptyMap
          /\ m = NIL => c = EmptyMap
          /\ heap' = IF m = "ev" THEN [heap EXCEPT !["ev"] = c] ELSE heap
          /\ arg' = [OccurredAt |-> t, IdempotencyKey |-> k, Metadata |-> m]
    /\ e' = arg'
    /\ heap0' = heap'
    /\ clock0' = clock
    /\ err' = nilError
    /\ result' = nilError
    /\ sent' = {}
    /\ pc' = "called"
    /\ UNCHANGED <<GlobalMetadata, clock, limitCalls>>

PublishDefaultTime ==
    /\ pc = "called"
    /\ e' = [e EXCEPT !.OccurredAt = defaultTime(e.OccurredAt, Now(clock))]
    /\ pc' = "timed"
    /\ UNCHANGED <<GlobalMetadata, heap, clock, arg, heap0, clock0, err, result,
                   sent, limitCalls>>

PublishDefaultKey ==
    /\ pc = "timed"
    /\ \E u \in UUIDs :
          e' = [e EXCEPT !.IdempotencyKey = defaultIdempotencyKey(e.IdempotencyKey, u)]
    /\ pc' = "keyed"
    /\ UNCHANGED <<GlobalMetadata, heap, clock, arg, heap0, clock0, err, result,
                   sent, limitCalls>>

PublishMerge ==
    /\ pc = "keyed"
    /\ LET r == merge(heap, e.Metadata, GlobalMetadata)
       IN  /\ heap' = r.heap
           /\ pc' = IF r.panicked THEN "panicked" ELSE "merged"
    /\ UNCHANGED <<GlobalMetadata, clock, arg, heap0, clock0, e, err, result,
                   sent, limitCalls>>

PublishValidate ==
    /\ pc = "merged"
    /\ err' \in validate(Content(heap, e.Metadata))
    /\ pc' = "validated"
    /\ UNCHANGED <<GlobalMetadata, heap, clock, arg, heap0, clock0, e, result,
                   sent, limitCalls>>

PublishAbort ==
    /\ pc = "validated"
    /\ err # nilError
    /\ result' = err
    /\ pc' = "returned"
    /\ UNCHANGED <<GlobalMetadata, heap, clock, arg, heap0, clock0, e, err,
                   sent, limitCalls>>

PublishSend ==
    /\ pc = "validated"
    /\ err = nilError
    /\ sent' = {[IdempotencyKey |-> e.IdempotencyKey,
                 OccurredAt |-> e.OccurredAt,
                 Metadata |-> Content(heap, e.Metadata)]}
    /\ result' \in {nilError, errTransport}
    /\ pc' = "returned"
    /\ UNCHANGED <<GlobalMetadata, heap, clock, arg, heap0, clock0, e, err,
                   limitCalls>>

\* The caller is done with the event (after a return, or after recovering
\* from a panic) and drops it; it can publish another one.
Discard ==
    /\ pc \in {"returned", "panicked"}
    /\ pc' = "idle"
    /\ heap' = [heap EXCEPT !["ev"] = EmptyMap]
    /\ arg' = NoEvent
    /\ e' = NoEvent
    /\ heap0' = heap'
    /\ clock0' = clock
    /\ err' = nilError
    /\ result' = nilError
    /\ sent' = {}
    /\ UNCHANGED <<GlobalMetadata, clock, limitCalls>>

Next ==
    \/ Tick
    \/ PublishCall
    \/ PublishDefaultTime
    \/ PublishDefaultKey
    \/ PublishMerge
    \/ PublishValidate
    \/ PublishAbort
    \/ PublishSend
    \/ Discard

Spec == Init /\ [][Next]_vars

-----------------------------------------------------------------------------
(* ListRequestParams.GetLimit *)

\* The table of TestEventsRequestParamsLimit.
limits == {[in |-> 1, out |-> 1], [in |-> -1, out |-> 10], [in |-> 0, out |-> 10],
           [in |-> 1001, out |-> 1000], [in |-> 100, out |-> 100]}

LimitInputs == (0 - LimitSlack)..(MaxLimit + LimitSlack)

\* A plain clamp to 1..MaxLimit.
GetLimitClamp(L) == IF L < 1 THEN 1 ELSE IF L > MaxLimit THEN MaxLimit ELSE L

GetLimit(L) ==
    IF L <= 0 THEN DefaultLimit
    ELSE IF L > MaxLimit THEN MaxLimit
    ELSE L

GetLimitCall ==
    /\ \E L \in LimitInputs : limitCalls' = {<<L, GetLimit(L)>>}
    /\ UNCHANGED publishVars

NextLimit == GetLimitCall

\* The package as loaded: GlobalMetadata is the nil map.
InitLimit == Init /\ GlobalMetadata = NIL

SpecLimit == InitLimit /\ [][NextLimit]_vars

-----------------------------------------------------------------------------
(* Properties *)

\* The caller's metadata and the global metadata when Publish was called, and
\* the event's metadata now.
Before == Content(heap0, arg.Metadata)
GlobalBefore == Content(heap0, GlobalMetadata)
After == Content(heap, e.Metadata)

\* At most 50 keys, each of at most 40 characters.
WithinLimits(mp) ==
    /\ Cardinality(DOMAIN mp) <= 50
    /\ \A k \in DOMAIN mp : Chars(k) <= 40

AfterTime == {"timed", "keyed", "merged", "panicked", "validated", "returned"}
AfterKey == {"keyed", "merged", "panicked", "validated", "returned"}
AfterMerge == {"merged", "validated", "returned"}

\* C1: GetLimit returns 10 for every limit <= 0, 1000 for every limit > 1000
\* and the limit itself for 1..1000; the outputs agree with the table of
\* TestEventsRequestParamsLimit.
C1_GetLimit ==
    \A c \in limitCalls :
        /\ c[1] <= 0 => c[2] = 10
        /\ c[1] > 1000 => c[2] = 1000
        /\ (1 <= c[1] /\ c[1] <= 1000) => c[2] = c[1]
        /\ \A tt \in limits : tt.in = c[1] => c[2] = tt.out

C1_Witness == <<-1, 10>> \in limitCalls

\* C2: when m.merge(g) has returned, the keys of m are the keys of the
\* original m and of g, every original key of m has its original value and
\* every key only in g has g's value.
C2_MergeUnion ==
    pc \in AfterMerge =>
        /\ DOMAIN After = DOMAIN Before \cup DOMAIN GlobalBefore
        /\ \A k \in DOMAIN Before : After[k] = Before[k]
        /\ \A k \in DOMAIN GlobalBefore \ DOMAIN Before : After[k] = GlobalBefore[k]

C2_Witness ==
    /\ pc = "merged"
    /\ \E k \in DOMAIN Before \cap DOMAIN GlobalBefore :
          /\ Before[k] # GlobalBefore[k]
          /\ After[k] = Before[k]
    /\ \E k \in DOMAIN GlobalBefore \ DOMAIN Before : After[k] = GlobalBefore[k]

\* C3: validate returns an error exactly when the map has more than 50 keys
\* or a key of more than 40 characters; the key-too-long error names such a
\* key and its length.
C3_ValidateExactly ==
    pc = "validated" =>
        /\ err # nilError <=> ~WithinLimits(After)
        /\ Cardinality(DOMAIN After) > 50 => err = errTooMuchMetadataKeys
        /\ err.kind = "keyTooLong" =>
              /\ err.key \in DOMAIN After
              /\ Chars(err.key) > 40
              /\ err.len = Chars(err.key)

\* C4: once the idempotency key is defaulted, it is a generated UUID when the
\* caller's key was empty and the caller's key otherwise, and it is never
\* empty, also in the request sent.
C4_IdempotencyKey ==
    /\ pc \in AfterKey =>
          /\ arg.IdempotencyKey = "" => e.IdempotencyKey \in UUIDs
          /\ arg.IdempotencyKey # "" => e.IdempotencyKey = arg.IdempotencyKey
          /\ e.IdempotencyKey # ""
    /\ \A r \in sent : r.IdempotencyKey # "" /\ r.IdempotencyKey = e.IdempotencyKey

C4_Witness ==
    /\ pc = "keyed"
    /\ arg.IdempotencyKey = ""
    /\ e.IdempotencyKey \in UUIDs

\* C5: once the timestamp is defaulted, it is the time read during the call,
\* in UTC, when the caller's timestamp was the zero value, and the caller's
\* timestamp (instant and location untouched) otherwise; it is never the
\* zero value.
C5_Timestamp ==
    pc \in AfterTime =>
        /\ arg.OccurredAt = ZeroTime =>
              /\ e.OccurredAt.loc = UTCLoc
              /\ clock0 <= e.OccurredAt.sec
              /\ e.OccurredAt.sec <= clock
        /\ arg.OccurredAt # ZeroTime => e.OccurredAt = arg.OccurredAt
        /\ e.OccurredAt # ZeroTime

C5_Witness ==
    /\ pc = "timed"
    /\ arg.OccurredAt = ZeroTime
    /\ e.OccurredAt.sec = clock
    /\ e.OccurredAt.loc = UTCLoc

\* C6: a request is sent only once validation of the merged metadata has
\* succeeded, and it carries the merged metadata, which has at most 50 keys
\* of at most 40 characters; when validation fails Publish returns that
\* error and nothing is sent.
C6_SendAfterValidation ==
    /\ \A r \in sent :
          /\ pc = "returned"
          /\ err = nilError
          /\ r.Metadata = After
          /\ WithinLimits(r.Metadata)
    /\ (pc \in {"validated", "returned"} /\ ~WithinLimits(After)) =>
          /\ err # nilError
          /\ sent = {}
          /\ pc = "returned" => result = err

C6_Witness ==
    /\ pc = "returned"
    /\ Cardinality(DOMAIN After) > 50
    /\ result = errTooMuchMetadataKeys
    /\ sent = {}

\* C7: preparation never crashes, also for an event without metadata, and
\* unless validation fails every key of the global metadata is in the
\* prepared event's metadata.
C7_GlobalApplied ==
    /\ pc # "panicked"
    /\ (pc \in {"validated", "returned"} /\ err = nilError) =>
          DOMAIN GlobalBefore \subseteq DOMAIN After

\* An event that comes with a timestamp, an idempotency key and metadata
\* within the limits.
FullyPopulated ==
    /\ arg.OccurredAt # ZeroTime
    /\ arg.IdempotencyKey # ""
    /\ WithinLimits(Before)

\* C8 as stated: preparing a fully populated event leaves its timestamp,
\* idempotency key and metadata equal to the caller's values, whatever the
\* global metadata.
C8_AsStated ==
    (pc \in AfterMerge \cup {"panicked"} /\ FullyPopulated) =>
        /\ e.OccurredAt = arg.OccurredAt
        /\ e.IdempotencyKey = arg.IdempotencyKey
        /\ After = Before

\* C8 amended: preparing a fully populated event leaves its timestamp and
\* idempotency key equal to the caller's values and every key of the caller's
\* metadata with its value; the metadata is equal to the caller's when every
\* global key is already an event key, and otherwise a completed merge has
\* added the global keys the event lacked.
C8_RoundTrip ==
    (pc \in AfterMerge \cup {"panicked"} /\ FullyPopulated) =>
        /\ e.OccurredAt = arg.OccurredAt
        /\ e.IdempotencyKey = arg.IdempotencyKey
        /\ e.Metadata = arg.Metadata
        /\ \A k \in DOMAIN Before : k \in DOMAIN After /\ After[k] = Before[k]
        /\ DOMAIN GlobalBefore \subseteq DOMAIN Before => After = Before
        /\ pc # "panicked" => DOMAIN After = DOMAIN Before \cup DOMAIN GlobalBefore

C8_Witness ==
    /\ pc = "returned"
    /\ FullyPopulated
    /\ result = nilError
    /\ ~(DOMAIN GlobalBefore \subseteq DOMAIN Before)
    /\ After # Before
    /\ e.OccurredAt = arg.OccurredAt

\* C9: no step of a Publish call changes the GlobalMetadata variable or the
\* map it refers to.
C9_GlobalUnchanged ==
    [][/\ GlobalMetadata' = GlobalMetadata
       /\ heap'["gl"] = heap["gl"]]_vars

C9_Witness ==
    /\ pc = "returned"
    /\ GlobalMetadata = "gl"
    /\ e.Metadata = "ev"
    /\ After # Before
    /\ heap["gl"] = heap0["gl"]

\* C10: an event whose own metadata is within the limits is rejected with the
\* too-many-keys error when the global keys it lacks bring the merged key
\* count above 50, and (the count staying at most 50) with the key-too-long
\* error when a global key it lacks has more than 40 characters.
C10_ValidatesMerged ==
    (pc \in {"returned", "panicked"} /\ WithinLimits(Before)) =>
        LET merged == DOMAIN Before \cup DOMAIN GlobalBefore
        IN  /\ Cardinality(merged) > 50 =>
                  pc = "returned" /\ result = errTooMuchMetadataKeys
            /\ (/\ Cardinality(merged) <= 50
                /\ \E k \in DOMAIN GlobalBefore \ DOMAIN Before : Chars(k) > 40) =>
                  pc = "returned" /\ result.kind = "keyTooLong"

====
